---- MODULE Spec2Model ----
(***************************************************************************)
(* Model of the location tracker: the capture screen (MapScreen) and the   *)
(* summary screen (WorkoutComplete) with its track analysis                *)
(* (isStationary, calculateStats) and the haversine helper.                *)
(*                                                                         *)
(* Number representation.  The source computes with IEEE doubles; the      *)
(* model computes with exact integers and fractions in fixed units:        *)
(*   distance          decimetres (1 m = 10)                               *)
(*   timestamps, times milliseconds; the source's "/ 1000" only changes    *)
(*                     the unit to seconds, so a time in seconds is held   *)
(*                     as its number of milliseconds                       *)
(*   speed threshold   centimetres per second (0.3 m/s = 30)               *)
(*   a quotient        a record [num, den]; den = 0 stands for the IEEE    *)
(*                     results of a division by zero (num > 0 +Infinity,   *)
(*                     num < 0 -Infinity, num = 0 NaN)                     *)
(* Latitude is held as decimetres of arc along one meridian, every point   *)
(* has the same longitude; on a meridian the haversine formula gives       *)
(* EARTH_RADIUS * |dphi|, the arc length between the two latitudes.        *)
(*                                                                         *)
(* MapScreen.tsx holds two versions of MapScreen; the model follows the    *)
(* one that records timestamps (lines 222-353), the only one whose path    *)
(* WorkoutComplete can read.                                               *)
(***************************************************************************)
EXTENDS Integers, Sequences, FiniteSets, TLC

\* ------------------------------------------------------------------ bounds

\* longest path handed to the summary screen by OpenSummary
MaxLen == 4
\* longest route the capture screen records
MaxFixes == 3
\* number of Start presses
MaxStarts == 2
\* number of times the summary screen is opened
MaxMounts == 2

\* ---------------------------------------------------------------- constants

\* one kilometre (the source's 1000 m) in decimetres
KM == 10000
\* isStationary's default speedThreshold, 0.3 m/s, in cm/s
DefaultSpeedThreshold == 30
\* isStationary's default pauseThresholdSec, 5 s, in ms
DefaultPauseThresholdSec == 5000

\* route.params.summary: hasPath is false when summary.path is undefined
Summary(path) == [hasPath |-> TRUE, path |-> path]
NoPath == [hasPath |-> FALSE, path |-> << >>]
\* watchId.current is null (the watch ids are 1, 2, ...)
Null == 0

\* ------------------------------------------------------------------- inputs

\* latitudes of the fixes, decimetres along the meridian
Lats == {0, 7000, 16000}
\* timestamp of the first fix, and the steps between one fix and the next
FirstStamps == {1000}
Deltas == {-4000, 4000, 10000}

\* a fix; every fix lies on the meridian of longitude 0
Point(lat, ts) == [latitude |-> lat, longitude |-> 0, timestamp |-> ts]

RECURSIVE PathsOfLen(_)
PathsOfLen(n) ==
    IF n = 0 THEN {<< >>}
    ELSE IF n = 1 THEN {<<Point(lat, ts)>> : lat \in Lats, ts \in FirstStamps}
    ELSE {Append(p, Point(lat, p[n - 1].timestamp + d)) :
              p \in PathsOfLen(n - 1), lat \in Lats, d \in Deltas}

\* the summaries a caller may pass in route.params, the one without a path included
InputSummaries ==
    {NoPath} \cup {Summary(p) : p \in UNION {PathsOfLen(n) : n \in 0..MaxLen}}
\* the summaries a second visit of the summary screen is opened with
ReopenSummaries ==
    {NoPath} \cup {Summary(p) : p \in UNION {PathsOfLen(n) : n \in 0..2}}

\* --------------------------------------------------------------- arithmetic

Abs(x) == IF x < 0 THEN -x ELSE x

\* JS "/" on numbers: a quotient, x / 0 kept as [num |-> x, den |-> 0]
Divide(x, y) == [num |-> x, den |-> y]

Zero == [num |-> 0, den |-> 1]
Whole(x) == [num |-> x, den |-> 1]

\* JS "speed < speedThreshold": speed a quotient in dm/ms (= 100 m/s),
\* speedThreshold in cm/s (= 1/100 m/s)
LessThanSpeed(speed, speedThreshold) ==
    IF speed.den = 0 THEN speed.num < 0
    ELSE IF speed.den > 0 THEN 10000 * speed.num < speedThreshold * speed.den
    ELSE 10000 * speed.num > speedThreshold * speed.den

\* ---------------------------------------------------------------- haversine

\* utils/haversine.ts on one meridian: dlambda = 0, so a = sin^2(dphi / 2),
\* c = 2 atan2(sqrt a, sqrt (1 - a)) = |dphi| and the result is R * |dphi|
\* the arguments of atan2 exchanged: c = 2 atan2(sqrt (1 - a), sqrt a) is
\* pi - |dphi|, and R * pi is 200150868 dm
HaversineAtan2Exchanged(lat1, lon1, lat2, lon2) ==
    CASE lon1 = lon2 -> 200150868 - Abs(lat2 - lat1)

haversine(lat1, lon1, lat2, lon2) ==
    CASE lon1 = lon2 -> Abs(lat2 - lat1)

\* ------------------------------------------------------------- isStationary

IsStationaryStrict(segmentDist, timeDeltaSec, speedThreshold, pauseThresholdSec) ==
    IF timeDeltaSec > pauseThresholdSec
    THEN LessThanSpeed(Divide(segmentDist, timeDeltaSec), speedThreshold)
    ELSE FALSE

isStationary(segmentDist, timeDeltaSec, speedThreshold, pauseThresholdSec) ==
    IF timeDeltaSec >= pauseThresholdSec
    THEN LET speed == Divide(segmentDist, timeDeltaSec)
         IN  LessThanSpeed(speed, speedThreshold)
    ELSE FALSE

\* the quotient taken ahead of the guard
DividesBeforeGuard(segmentDist, timeDeltaSec, speedThreshold, pauseThresholdSec) ==
    TRUE

\* whether a call evaluates segmentDist / timeDeltaSec: the division stands
\* inside the if, so exactly when its condition holds
isStationaryDivides(segmentDist, timeDeltaSec, speedThreshold, pauseThresholdSec) ==
    timeDeltaSec >= pauseThresholdSec

\* the two arguments in the wrong order
IsStationaryDefaultSwapped(dist, deltaT) ==
    isStationary(deltaT, dist, DefaultSpeedThreshold, DefaultPauseThresholdSec)

\* the call of calculateStats: both thresholds defaulted
isStationaryDefault(dist, deltaT) ==
    isStationary(dist, deltaT, DefaultSpeedThreshold, DefaultPauseThresholdSec)

\* -------------------------------------------------------------------- state

VARIABLES
    \* MapScreen
    screen,             \* the screen on top of the navigation stack
    route,              \* useState: the recorded fixes
    tracking,           \* useState: the Start / Stop button shown
    watchId,            \* useRef: the watch startTracking stored last
    watches,            \* Geolocation: the watches registered and not cleared
    pending,            \* startTracking calls waiting in await requestPermission()
    starts,             \* Start presses so far
    watchCount,         \* Geolocation: watchPosition calls so far
    navigated,          \* the summaries MapScreen gave navigation.navigate
    alert,              \* the last Alert.alert shown
    \* WorkoutComplete
    mounts,             \* times the component has been mounted
    params,             \* route.params.summary
    pc,                 \* "unmounted", "loop" (inside calculateStats), "rejected", "done"
    i,                  \* calculateStats: the loop index
    cumDist,
    lastSplitKm,
    splitStartTime,
    accruedMovingTime,
    accruedPausedTime,
    pauseCount,
    splitsArr,
    \* WorkoutComplete's useState fields
    distance,
    movingTime,
    totalTime,
    averageSpeed,
    pausedSections,
    splits,
    ready,
    \* one call of isStationary on its own
    call,               \* the arguments; arity 2 leaves both thresholds defaulted
    verdict,            \* "pending", then the value returned
    divided,            \* whether that call evaluated segmentDist / timeDeltaSec
    hav                 \* a call of haversine on its own and what it returned

mapVars == <<screen, route, tracking, watchId, watches, pending, starts, watchCount,
             navigated>>
locals == <<i, cumDist, lastSplitKm, splitStartTime, accruedMovingTime,
            accruedPausedTime, pauseCount, splitsArr>>
summaryState == <<distance, movingTime, totalTime, averageSpeed, pausedSections,
                  splits, ready>>
classifierVars == <<call, verdict, divided, hav>>
vars == <<mapVars, alert, mounts, params, pc, locals, summaryState, classifierVars>>

\* ------------------------------------------------- WorkoutComplete: the mount

\* the guard of the mount effect
PathRejectedBelowOne(summary) == ~summary.hasPath \/ Len(summary.path) < 1

\* !summary.path || summary.path.length < 2
PathRejected(summary) == ~summary.hasPath \/ Len(summary.path) < 2

\* the useState initial values
InitialSummaryState ==
    /\ distance = 0
    /\ movingTime = 0
    /\ totalTime = 0
    /\ averageSpeed = Zero
    /\ pausedSections = 0
    /\ splits = << >>
    /\ ready = FALSE

\* the ready flag starting out true
MountSummaryStateReady ==
    /\ distance' = 0
    /\ movingTime' = 0
    /\ totalTime' = 0
    /\ averageSpeed' = Zero
    /\ pausedSections' = 0
    /\ splits' = << >>
    /\ ready' = TRUE

\* a mount gives the useState fields their initial values
MountSummaryState ==
    /\ distance' = 0
    /\ movingTime' = 0
    /\ totalTime' = 0
    /\ averageSpeed' = Zero
    /\ pausedSections' = 0
    /\ splits' = << >>
    /\ ready' = FALSE

\* calculateStats up to the loop: accumulators carried over from the last call
KeepAccumulators(path) ==
    /\ i' = 1
    /\ splitStartTime' = Whole(path[1].timestamp)
    /\ UNCHANGED <<cumDist, lastSplitKm, accruedMovingTime, accruedPausedTime,
                   pauseCount, splitsArr>>

\* calculateStats up to the loop: the let declarations and i = 1
ResetAccumulators(path) ==
    /\ splitsArr' = << >>
    /\ cumDist' = 0
    /\ lastSplitKm' = 0
    /\ splitStartTime' = Whole(path[1].timestamp)
    /\ accruedMovingTime' = 0
    /\ accruedPausedTime' = 0
    /\ pauseCount' = 0
    /\ i' = 1

\* the component mounts with route.params.summary = summary: the useState
\* fields take their initial values and the mount effect runs
Mount(summary) ==
    /\ mounts' = mounts + 1
    /\ params' = summary
    /\ MountSummaryState
    /\ IF PathRejected(summary)
       THEN /\ alert' = "Error: Insufficient path data provided."
            /\ pc' = "rejected"
            /\ UNCHANGED locals
       ELSE /\ ResetAccumulators(summary.path)
            /\ pc' = "loop"
            /\ UNCHANGED alert

\* ------------------------------------------ WorkoutComplete: calculateStats

Path == params.path
Prev == Path[i]
Curr == Path[i + 1]
SegDist == haversine(Prev.latitude, Prev.longitude, Curr.latitude, Curr.longitude)
DeltaT == Curr.timestamp - Prev.timestamp

\* (curr.timestamp - splitStartTime) / 1000
SplitDur(ts, start) == [num |-> ts * start.den - start.num, den |-> start.den]

\* the interpolated time added to curr.timestamp
ReanchorForward(ts, overshootMeters, dist, deltaT) ==
    [num |-> ts * dist + overshootMeters * deltaT, den |-> dist]

\* curr.timestamp - (overshootMeters / dist) * deltaT * 1000
Reanchor(ts, overshootMeters, dist, deltaT) ==
    [num |-> ts * dist - overshootMeters * deltaT, den |-> dist]

\* the paused branch also counted as moving time
PausedBranchCountsMoving(deltaT) ==
    /\ pauseCount' = pauseCount + 1
    /\ accruedPausedTime' = accruedPausedTime + deltaT
    /\ accruedMovingTime' = accruedMovingTime + deltaT
    /\ UNCHANGED <<cumDist, lastSplitKm, splitStartTime, splitsArr>>

\* the paused branch counting the pause only
PausedBranchDropsTime(deltaT) ==
    /\ pauseCount' = pauseCount + 1
    /\ UNCHANGED <<accruedPausedTime, cumDist, accruedMovingTime, lastSplitKm,
                   splitStartTime, splitsArr>>

\* if (paused) { pauseCount++; accruedPausedTime += deltaT; }
PausedBranch(deltaT) ==
    /\ pauseCount' = pauseCount + 1
    /\ accruedPausedTime' = accruedPausedTime + deltaT
    /\ UNCHANGED <<cumDist, accruedMovingTime, lastSplitKm, splitStartTime, splitsArr>>

\* the split test with >= for >
SplitBranchEager(newDist, dist, deltaT, curr) ==
    LET kmNow == newDist \div KM
    IN  IF kmNow >= lastSplitKm
        THEN LET splitDur == SplitDur(curr.timestamp, splitStartTime)
                 overshootMeters == newDist % KM
             IN  /\ splitsArr' = Append(splitsArr,
                                    [km |-> lastSplitKm + 1, durationSec |-> splitDur])
                 /\ lastSplitKm' = kmNow
                 /\ splitStartTime' =
                        Reanchor(curr.timestamp, overshootMeters, dist, deltaT)
        ELSE UNCHANGED <<splitsArr, lastSplitKm, splitStartTime>>

\* a split for every kilometre boundary the segment crossed
SplitBranchPerKilometre(newDist, dist, deltaT, curr) ==
    LET kmNow == newDist \div KM
    IN  IF kmNow > lastSplitKm
        THEN LET splitDur == SplitDur(curr.timestamp, splitStartTime)
                 overshootMeters == newDist % KM
             IN  /\ splitsArr' = splitsArr \o
                        [j \in 1..(kmNow - lastSplitKm) |->
                            [km |-> lastSplitKm + j, durationSec |-> splitDur]]
                 /\ lastSplitKm' = kmNow
                 /\ splitStartTime' =
                        Reanchor(curr.timestamp, overshootMeters, dist, deltaT)
        ELSE UNCHANGED <<splitsArr, lastSplitKm, splitStartTime>>

\* lastSplitKm advanced by one for "lastSplitKm = kmNow"
SplitBranchStepsKm(newDist, dist, deltaT, curr) ==
    LET kmNow == newDist \div KM
    IN  IF kmNow > lastSplitKm
        THEN LET splitDur == SplitDur(curr.timestamp, splitStartTime)
                 overshootMeters == newDist % KM
             IN  /\ splitsArr' = Append(splitsArr,
                                    [km |-> lastSplitKm + 1, durationSec |-> splitDur])
                 /\ lastSplitKm' = lastSplitKm + 1
                 /\ splitStartTime' =
                        Reanchor(curr.timestamp, overshootMeters, dist, deltaT)
        ELSE UNCHANGED <<splitsArr, lastSplitKm, splitStartTime>>

\* kmNow = Math.floor(cumDist / 1000) and the if (kmNow > lastSplitKm) block;
\* newDist is cumDist after "cumDist += dist"
SplitBranch(newDist, dist, deltaT, curr) ==
    LET kmNow == newDist \div KM
    IN  IF kmNow > lastSplitKm
        THEN LET splitDur == SplitDur(curr.timestamp, splitStartTime)
                 overshootMeters == newDist % KM
             IN  /\ splitsArr' = Append(splitsArr,
                                    [km |-> lastSplitKm + 1, durationSec |-> splitDur])
                 /\ lastSplitKm' = kmNow
                 /\ splitStartTime' =
                        Reanchor(curr.timestamp, overshootMeters, dist, deltaT)
        ELSE UNCHANGED <<splitsArr, lastSplitKm, splitStartTime>>

\* the moving branch with "accruedMovingTime = deltaT" for "+="
MovingBranchAssignsTime(dist, deltaT, curr) ==
    /\ cumDist' = cumDist + dist
    /\ accruedMovingTime' = deltaT
    /\ UNCHANGED <<pauseCount, accruedPausedTime>>
    /\ SplitBranch(cumDist + dist, dist, deltaT, curr)

\* the else branch: cumDist += dist; accruedMovingTime += deltaT; the split block
MovingBranch(dist, deltaT, curr) ==
    /\ cumDist' = cumDist + dist
    /\ accruedMovingTime' = accruedMovingTime + deltaT
    /\ UNCHANGED <<pauseCount, accruedPausedTime>>
    /\ SplitBranch(cumDist + dist, dist, deltaT, curr)

\* a paused segment taken again: the index not moved on
SegmentPausedAgain ==
    /\ pc = "loop"
    /\ i < Len(Path)
    /\ isStationaryDefault(SegDist, DeltaT)
    /\ PausedBranch(DeltaT)
    /\ i' = i
    /\ UNCHANGED <<mapVars, alert, mounts, params, pc, summaryState, classifierVars>>

\* one iteration of the for loop on a segment isStationary calls paused
SegmentPaused ==
    /\ pc = "loop"
    /\ i < Len(Path)
    /\ isStationaryDefault(SegDist, DeltaT)
    /\ PausedBranch(DeltaT)
    /\ i' = i + 1
    /\ UNCHANGED <<mapVars, alert, mounts, params, pc, summaryState, classifierVars>>

\* one iteration of the for loop on a moving segment
SegmentMoving ==
    /\ pc = "loop"
    /\ i < Len(Path)
    /\ ~isStationaryDefault(SegDist, DeltaT)
    /\ MovingBranch(SegDist, DeltaT, Curr)
    /\ i' = i + 1
    /\ UNCHANGED <<mapVars, alert, mounts, params, pc, summaryState, classifierVars>>

AverageSpeedUnlessZero(dist, time) ==
    IF time # 0 THEN Divide(dist, time) ELSE Zero

\* accruedMovingTime > 0 ? cumDist / accruedMovingTime : 0
AverageSpeedOf(dist, time) ==
    IF time > 0 THEN Divide(dist, time) ELSE Zero

\* the loop has ended: totalElapsedSec and the seven set... calls, which React
\* commits together
Publish ==
    /\ pc = "loop"
    /\ ~(i < Len(Path))
    /\ distance' = cumDist
    /\ movingTime' = accruedMovingTime
    /\ totalTime' = Path[Len(Path)].timestamp - Path[1].timestamp
    /\ pausedSections' = pauseCount
    /\ splits' = splitsArr
    /\ averageSpeed' = AverageSpeedOf(cumDist, accruedMovingTime)
    /\ ready' = TRUE
    /\ pc' = "done"
    /\ UNCHANGED <<mapVars, alert, mounts, params, locals, classifierVars>>

\* the summary screen is opened with arbitrary route params: first from the
\* untouched app, then again after a run has ended
OpenSummary ==
    /\ starts = 0
    /\ mounts < MaxMounts
    /\ pc \in {"unmounted", "rejected", "done"}
    /\ \E summary \in (IF pc = "unmounted" THEN InputSummaries ELSE ReopenSummaries) :
           Mount(summary)
    /\ screen' = "WorkoutComplete"
    /\ UNCHANGED <<route, tracking, watchId, watches, pending, starts, watchCount,
                   navigated, classifierVars>>

\* ---------------------------------------------------------------- MapScreen

\* JS runs a handler to its end: no other handler starts inside calculateStats
Idle == pc # "loop"

summaryVars == <<mounts, params, pc, locals, summaryState>>

\* the fixes the location service may deliver next
SensorLats == {0, 7000}
SensorDeltas == {10000}
NextFixes ==
    IF route = << >>
    THEN {Point(lat, ts) : lat \in SensorLats, ts \in FirstStamps}
    ELSE {Point(lat, route[Len(route)].timestamp + d) :
              lat \in SensorLats, d \in SensorDeltas}

\* stopTracking: clears the watch held in watchId, if any
StopTracking ==
    /\ IF watchId # Null
       THEN /\ watches' = watches \ {watchId}
            /\ watchId' = Null
       ELSE UNCHANGED <<watches, watchId>>
    /\ tracking' = FALSE

\* Start is pressed: startTracking runs up to await requestPermission()
StartPress ==
    /\ Idle
    /\ screen = "MapScreen"
    /\ ~tracking
    /\ starts < MaxStarts
    /\ starts' = starts + 1
    /\ pending' = pending + 1
    /\ UNCHANGED <<screen, route, tracking, watchId, watches, watchCount, navigated,
                   alert, summaryVars, classifierVars>>

\* requestPermission resolves false: the alert, and startTracking returns
PermissionDenied ==
    /\ Idle
    /\ pending > 0
    /\ pending' = pending - 1
    /\ alert' = "Permission required"
    /\ UNCHANGED <<screen, route, tracking, watchId, watches, starts, watchCount,
                   navigated, summaryVars, classifierVars>>

\* requestPermission resolves true: the rest of startTracking
PermissionGranted ==
    /\ Idle
    /\ pending > 0
    /\ pending' = pending - 1
    /\ route' = << >>
    /\ tracking' = TRUE
    /\ LET id == watchCount + 1
       IN  /\ watchCount' = id
           /\ watches' = watches \cup {id}
           /\ watchId' = id
    /\ UNCHANGED <<screen, starts, navigated, alert, summaryVars, classifierVars>>

\* the success callback of a registered watch
PositionCallback ==
    /\ Idle
    /\ watches # {}
    /\ Len(route) < MaxFixes
    /\ \E point \in NextFixes : route' = Append(route, point)
    /\ UNCHANGED <<screen, tracking, watchId, watches, pending, starts, watchCount,
                   navigated, alert, summaryVars, classifierVars>>

\* the error callback of a registered watch
ErrorCallback ==
    /\ Idle
    /\ watches # {}
    /\ alert' = "Location error"
    /\ StopTracking
    /\ UNCHANGED <<screen, route, pending, starts, watchCount, navigated, summaryVars,
                   classifierVars>>

\* Stop & Review is pressed
FinishTracking ==
    /\ Idle
    /\ screen = "MapScreen"
    /\ tracking
    /\ StopTracking
    /\ IF Len(route) < 2
       THEN /\ alert' = "Not enough data for route"
            /\ UNCHANGED <<screen, navigated, summaryVars>>
       ELSE /\ navigated' = Append(navigated, Summary(route))
            /\ screen' = "WorkoutComplete"
            /\ Mount(Summary(route))
    /\ UNCHANGED <<route, pending, starts, watchCount, classifierVars>>

\* ------------------------------------------------------------ specification

Init ==
    /\ screen = "MapScreen"
    /\ route = << >>
    /\ tracking = FALSE
    /\ watchId = Null
    /\ watches = {}
    /\ pending = 0
    /\ starts = 0
    /\ watchCount = 0
    /\ navigated = << >>
    /\ alert = "none"
    /\ mounts = 0
    /\ params = NoPath
    /\ pc = "unmounted"
    /\ i = 0
    /\ cumDist = 0
    /\ lastSplitKm = 0
    /\ splitStartTime = Zero
    /\ accruedMovingTime = 0
    /\ accruedPausedTime = 0
    /\ pauseCount = 0
    /\ splitsArr = << >>
    /\ InitialSummaryState
    /\ call = [segmentDist |-> 0, timeDeltaSec |-> 0, speedThreshold |-> 0,
               pauseThresholdSec |-> 0, arity |-> 2]
    /\ verdict = "pending"
    /\ divided = FALSE
    /\ hav = [lat1 |-> 0, lon1 |-> 0, lat2 |-> 0, lon2 |-> 0,
              returned |-> FALSE, metres |-> 0]

Next ==
    \/ OpenSummary
    \/ SegmentPaused
    \/ SegmentMoving
    \/ Publish
    \/ StartPress
    \/ PermissionDenied
    \/ PermissionGranted
    \/ PositionCallback
    \/ ErrorCallback
    \/ FinishTracking

Spec == Init /\ [][Next]_vars

\* calculateStats is one synchronous call: once entered, the for loop and the
\* setters after it run to the end
SpecFair == Spec /\ WF_vars(SegmentPaused \/ SegmentMoving \/ Publish)

\* ------------------------------------------- isStationary called on its own

\* the arguments tried: decimetres, milliseconds, cm/s, milliseconds
CallDists == {-14, 0, 14, 15, 16, 7000}
CallTimes == {-5000, 0, 1000, 4999, 5000, 10000}
CallSpeedThresholds == {0, 30, 100}
CallPauseThresholds == {0, 5000, 10000}

ClassifierCalls ==
    [segmentDist : CallDists, timeDeltaSec : CallTimes,
     speedThreshold : CallSpeedThresholds, pauseThresholdSec : CallPauseThresholds,
     arity : {4}]
    \cup
    [segmentDist : CallDists, timeDeltaSec : CallTimes,
     speedThreshold : {DefaultSpeedThreshold},
     pauseThresholdSec : {DefaultPauseThresholdSec}, arity : {2}]

Returned(b) == IF b THEN "true" ELSE "false"

\* isStationary(segmentDist, timeDeltaSec)
ClassifyDefault ==
    /\ verdict = "pending"
    /\ call.arity = 2
    /\ verdict' = Returned(isStationaryDefault(call.segmentDist, call.timeDeltaSec))
    /\ divided' = isStationaryDivides(call.segmentDist, call.timeDeltaSec,
                                      DefaultSpeedThreshold, DefaultPauseThresholdSec)
    /\ UNCHANGED <<mapVars, alert, summaryVars, call, hav>>

\* isStationary(segmentDist, timeDeltaSec, speedThreshold, pauseThresholdSec)
ClassifyExplicit ==
    /\ verdict = "pending"
    /\ call.arity = 4
    /\ verdict' = Returned(isStationary(call.segmentDist, call.timeDeltaSec,
                                        call.speedThreshold, call.pauseThresholdSec))
    /\ divided' = isStationaryDivides(call.segmentDist, call.timeDeltaSec,
                                      call.speedThreshold, call.pauseThresholdSec)
    /\ UNCHANGED <<mapVars, alert, summaryVars, call, hav>>

InitClassifier ==
    /\ screen = "MapScreen"
    /\ route = << >>
    /\ tracking = FALSE
    /\ watchId = Null
    /\ watches = {}
    /\ pending = 0
    /\ starts = 0
    /\ watchCount = 0
    /\ navigated = << >>
    /\ alert = "none"
    /\ mounts = 0
    /\ params = NoPath
    /\ pc = "unmounted"
    /\ i = 0
    /\ cumDist = 0
    /\ lastSplitKm = 0
    /\ splitStartTime = Zero
    /\ accruedMovingTime = 0
    /\ accruedPausedTime = 0
    /\ pauseCount = 0
    /\ splitsArr = << >>
    /\ InitialSummaryState
    /\ call \in ClassifierCalls
    /\ verdict = "pending"
    /\ divided = FALSE
    /\ hav = [lat1 |-> 0, lon1 |-> 0, lat2 |-> 0, lon2 |-> 0,
              returned |-> FALSE, metres |-> 0]

NextClassifier ==
    \/ ClassifyDefault
    \/ ClassifyExplicit

SpecClassifier == InitClassifier /\ [][NextClassifier]_vars

\* ------------------------------------------------------ haversine on its own

\* latitudes in decimetres along the meridian, both poles included (a quarter
\* turn is 100075434 dm); longitudes in degrees, both ends of the range included
HaversineLats == {-100075434, -7000, 0, 7000, 16000, 100075434}
HaversineLons == {-180, 0, 90, 180}

\* the two points share their meridian
HaversineCalls ==
    {[lat1 |-> a, lon1 |-> l, lat2 |-> b, lon2 |-> l, returned |-> FALSE, metres |-> 0] :
        a \in HaversineLats, b \in HaversineLats, l \in HaversineLons}

\* haversine(lat1, lon1, lat2, lon2)
CallHaversine ==
    /\ ~hav.returned
    /\ hav' = [hav EXCEPT !.returned = TRUE,
                          !.metres = haversine(hav.lat1, hav.lon1, hav.lat2, hav.lon2)]
    /\ UNCHANGED <<mapVars, alert, summaryVars, call, verdict, divided>>

InitHaversine ==
    /\ screen = "MapScreen"
    /\ route = << >>
    /\ tracking = FALSE
    /\ watchId = Null
    /\ watches = {}
    /\ pending = 0
    /\ starts = 0
    /\ watchCount = 0
    /\ navigated = << >>
    /\ alert = "none"
    /\ mounts = 0
    /\ params = NoPath
    /\ pc = "unmounted"
    /\ i = 0
    /\ cumDist = 0
    /\ lastSplitKm = 0
    /\ splitStartTime = Zero
    /\ accruedMovingTime = 0
    /\ accruedPausedTime = 0
    /\ pauseCount = 0
    /\ splitsArr = << >>
    /\ InitialSummaryState
    /\ call = [segmentDist |-> 0, timeDeltaSec |-> 0, speedThreshold |-> 0,
               pauseThresholdSec |-> 0, arity |-> 2]
    /\ verdict = "pending"
    /\ divided = FALSE
    /\ hav \in HaversineCalls

NextHaversine == CallHaversine

SpecHaversine == InitHaversine /\ [][NextHaversine]_vars

\* ------------------------------------------------------- the track, restated

\* segment k of path p joins p[k] and p[k + 1]
SegDistAt(p, k) ==
    haversine(p[k].latitude, p[k].longitude, p[k + 1].latitude, p[k + 1].longitude)
DeltaAt(p, k) == p[k + 1].timestamp - p[k].timestamp
PausedAt(p, k) == isStationaryDefault(SegDistAt(p, k), DeltaAt(p, k))
Segments(p) == 1..(Len(p) - 1)

RECURSIVE MovingDistUpTo(_, _)
MovingDistUpTo(p, k) ==
    IF k = 0 THEN 0
    ELSE MovingDistUpTo(p, k - 1) + (IF PausedAt(p, k) THEN 0 ELSE SegDistAt(p, k))

RECURSIVE MovingTimeUpTo(_, _)
MovingTimeUpTo(p, k) ==
    IF k = 0 THEN 0
    ELSE MovingTimeUpTo(p, k - 1) + (IF PausedAt(p, k) THEN 0 ELSE DeltaAt(p, k))

\* the accumulator of the fold as one value
Accumulator ==
    [cumDist |-> cumDist, lastSplitKm |-> lastSplitKm, splitStartTime |-> splitStartTime,
     accruedMovingTime |-> accruedMovingTime, accruedPausedTime |-> accruedPausedTime,
     pauseCount |-> pauseCount, splitsArr |-> splitsArr]

FoldStart(p) ==
    [cumDist |-> 0, lastSplitKm |-> 0, splitStartTime |-> Whole(p[1].timestamp),
     accruedMovingTime |-> 0, accruedPausedTime |-> 0, pauseCount |-> 0,
     splitsArr |-> << >>]

FoldStep(a, p, k) ==
    LET dist == SegDistAt(p, k)
        deltaT == DeltaAt(p, k)
        newDist == a.cumDist + dist
        moved == [a EXCEPT !.cumDist = newDist, !.accruedMovingTime = @ + deltaT]
    IN  IF PausedAt(p, k)
        THEN [a EXCEPT !.pauseCount = @ + 1, !.accruedPausedTime = @ + deltaT]
        ELSE IF newDist \div KM > a.lastSplitKm
        THEN [moved EXCEPT
                 !.splitsArr = Append(@, [km |-> a.lastSplitKm + 1,
                                          durationSec |-> SplitDur(p[k + 1].timestamp,
                                                                   a.splitStartTime)]),
                 !.lastSplitKm = newDist \div KM,
                 !.splitStartTime = Reanchor(p[k + 1].timestamp, newDist % KM,
                                             dist, deltaT)]
        ELSE moved

\* the value of the fold over the first k segments of p, a function of p alone
RECURSIVE FoldOf(_, _)
FoldOf(p, k) == IF k = 0 THEN FoldStart(p) ELSE FoldStep(FoldOf(p, k - 1), p, k)

\* ------------------------------------------------------------------- claims

\* C1: the splits emitted for an accepted track are numbered 1, 2, 3, ... in
\* order, no index skipped, also when one moving segment spans several kilometres.
SplitsNumberedConsecutively ==
    ready => \A k \in 1..Len(splits) : splits[k].km = k

\* a rejected mount leaves nothing of a summary, and MapScreen hands over
\* paths of 2 points or more only
RejectedShape ==
    /\ (mounts > 0 /\ (~params.hasPath \/ Len(params.path) < 2)) =>
           /\ pc = "rejected"
           /\ alert = "Error: Insufficient path data provided."
           /\ InitialSummaryState
    /\ ready => (params.hasPath /\ Len(params.path) >= 2)
    /\ \A n \in 1..Len(navigated) :
           navigated[n].hasPath /\ Len(navigated[n].path) >= 2

\* C2: a summary without a path, or with a path of fewer than 2 points, is
\* rejected with an error: the loop is never entered, no summary field leaves
\* its initial value and ready stays false; and every path MapScreen hands to
\* the summary screen has at least 2 points.
ShortTrackRejected ==
    /\ []RejectedShape
    /\ [][pc' = "rejected" => UNCHANGED locals]_vars
ShortTrackRejectedSeen ==
    /\ pc = "rejected"
    /\ params.hasPath
    /\ Len(params.path) = 1
    /\ mounts = 2
    /\ cumDist > 0

\* C3: an iteration on a segment classified as paused adds 1 to pauseCount and
\* deltaT to the paused time, and leaves cumDist, the moving time, lastSplitKm,
\* splitStartTime and the splits list as they were.
PausedSegmentFrame ==
    [][(pc = "loop" /\ i' = i + 1 /\ PausedAt(Path, i)) =>
           /\ pauseCount' = pauseCount + 1
           /\ accruedPausedTime' = accruedPausedTime + DeltaAt(Path, i)
           /\ UNCHANGED <<cumDist, accruedMovingTime, lastSplitKm, splitStartTime,
                          splitsArr>>]_vars
PausedSegmentSeen ==
    /\ pc = "loop"
    /\ i > 2
    /\ PausedAt(Path, i - 1)
    /\ cumDist > KM
    /\ pauseCount = 1

\* d / t < speedThreshold, d in dm, t in ms, speedThreshold in cm/s; d / 0 is
\* -Infinity, NaN or Infinity
SpeedBelow(d, t, speedThreshold) ==
    IF t > 0 THEN 10000 * d < speedThreshold * t
    ELSE IF t < 0 THEN 10000 * d > speedThreshold * t
    ELSE d < 0

\* C4: isStationary(d, t, speedThreshold, pauseThreshold) is true exactly when
\* t >= pauseThreshold and d / t < speedThreshold; with the defaults it is
\* false for every t < 5 s, true for (1.4 m, 5 s) and false for (1.6 m, 5 s).
StationaryIffSlowAndLong ==
    verdict # "pending" =>
        /\ (verdict = "true") <=>
               (/\ call.timeDeltaSec >= call.pauseThresholdSec
                /\ SpeedBelow(call.segmentDist, call.timeDeltaSec, call.speedThreshold))
        /\ (call.arity = 2 /\ call.timeDeltaSec < 5000) => verdict = "false"
        /\ (call.arity = 2 /\ call.segmentDist = 14 /\ call.timeDeltaSec = 5000)
               => verdict = "true"
        /\ (call.arity = 2 /\ call.segmentDist = 16 /\ call.timeDeltaSec = 5000)
               => verdict = "false"
StationaryAtThresholdSeen ==
    /\ verdict = "true"
    /\ call.arity = 2
    /\ call.segmentDist = 14
    /\ call.timeDeltaSec = 5000

\* C5: for every accepted track, non-monotonic timestamps included, the moving
\* time plus the paused time is the elapsed time t[last] - t[first]; inside the
\* loop the two add up to the time elapsed up to the point reached.
MovingPlusPausedIsElapsed ==
    /\ pc = "loop" =>
           accruedMovingTime + accruedPausedTime
               = Path[i].timestamp - Path[1].timestamp
    /\ pc = "done" =>
           /\ movingTime + accruedPausedTime = totalTime
           /\ totalTime = Path[Len(Path)].timestamp - Path[1].timestamp
MovingPlusPausedSeen ==
    /\ pc = "done"
    /\ accruedPausedTime > 0
    /\ movingTime < 0
    /\ \E k \in Segments(Path) : DeltaAt(Path, k) < 0

\* C6: the moving distance is the sum of the distances of the segments
\* classified as moving and the moving time the sum of their durations; paused
\* segments add to neither.
MovingTotalsAreSums ==
    /\ pc = "loop" =>
           /\ cumDist = MovingDistUpTo(Path, i - 1)
           /\ accruedMovingTime = MovingTimeUpTo(Path, i - 1)
    /\ pc = "done" =>
           /\ distance = MovingDistUpTo(Path, Len(Path) - 1)
           /\ movingTime = MovingTimeUpTo(Path, Len(Path) - 1)
MovingTotalsSeen ==
    /\ pc = "done"
    /\ pausedSections > 0
    /\ distance > KM
    /\ movingTime > 0
    /\ movingTime < totalTime

\* C7: averageSpeed is cumDist / accruedMovingTime when the moving time is
\* positive and exactly 0 otherwise: the divisor is never zero or negative and
\* the result is never negative.
AverageSpeedGuarded ==
    pc = "done" =>
        /\ IF movingTime > 0
           THEN averageSpeed = [num |-> distance, den |-> movingTime]
           ELSE averageSpeed = Zero
        /\ averageSpeed.den > 0
        /\ averageSpeed.num >= 0
AverageSpeedGuardSeen ==
    /\ pc = "done"
    /\ movingTime < 0
    /\ distance > 0
    /\ averageSpeed = Zero

\* every segment of p has distance 0 and lasts 5 s or more
AllStill(p) ==
    \A k \in Segments(p) :
        SegDistAt(p, k) = 0 /\ DeltaAt(p, k) >= DefaultPauseThresholdSec

\* C8: when every segment has distance 0 and lasts at least 5 s, pauseCount is
\* the number of segments, distance, moving time and average speed are 0, there
\* are no splits and the elapsed time is the last timestamp minus the first.
StandingStillSummary ==
    (pc = "done" /\ AllStill(Path)) =>
        /\ pausedSections = Len(Path) - 1
        /\ distance = 0
        /\ movingTime = 0
        /\ averageSpeed = Zero
        /\ splits = << >>
        /\ totalTime = Path[Len(Path)].timestamp - Path[1].timestamp
StandingStillSeen ==
    /\ pc = "done"
    /\ AllStill(Path)
    /\ Len(Path) >= 3
    /\ pausedSections = Len(Path) - 1
    /\ totalTime >= 20000

\* no segment of p is paused and each is shorter than 1 km
ShortMoving(p) ==
    \A k \in Segments(p) : SegDistAt(p, k) < KM /\ ~PausedAt(p, k)

\* C9: on a track with no paused segment and every segment shorter than 1 km,
\* the number of splits is the number of whole kilometres covered, at every
\* point of the loop and at its end, and the splits are numbered 1..n in order.
OneSplitPerKilometre ==
    ShortMoving(Path) =>
        /\ pc \in {"loop", "done"} =>
               /\ Len(splitsArr) = cumDist \div KM
               /\ \A k \in 1..Len(splitsArr) : splitsArr[k].km = k
        /\ pc = "done" =>
               /\ splits = splitsArr
               /\ Len(splits) = distance \div KM
TwoAndAHalfKilometresSeen ==
    /\ pc = "done"
    /\ ShortMoving(Path)
    /\ distance = 25000
    /\ Len(splits) = 2
    /\ splits[1].km = 1
    /\ splits[2].km = 2

\* C10: calculateStats carries nothing from one call to the next: whatever ran
\* before, the accumulators inside the loop and the six published fields are
\* the value of the fold over the track in hand, a function of that track alone.
SummaryIsFunctionOfTrack ==
    /\ pc = "loop" => Accumulator = FoldOf(Path, i - 1)
    /\ pc = "done" =>
           LET a == FoldOf(Path, Len(Path) - 1)
           IN  /\ distance = a.cumDist
               /\ movingTime = a.accruedMovingTime
               /\ pausedSections = a.pauseCount
               /\ splits = a.splitsArr
               /\ totalTime = Path[Len(Path)].timestamp - Path[1].timestamp
               /\ averageSpeed = (IF a.accruedMovingTime > 0
                                  THEN [num |-> a.cumDist, den |-> a.accruedMovingTime]
                                  ELSE Zero)
SecondRunSeen ==
    /\ pc = "done"
    /\ mounts = 2
    /\ distance > 0
    /\ lastSplitKm > 0

\* C11: a call of isStationary with a zero time delta and a positive pause
\* threshold (the default of 5 s included) returns false without evaluating
\* segmentDist / timeDeltaSec, whatever the distance and the speed threshold
ZeroDeltaSkipsDivision ==
    (verdict # "pending" /\ call.timeDeltaSec = 0 /\ call.pauseThresholdSec > 0) =>
        (~divided /\ verdict = "false")
ZeroDeltaSkipsDivisionSeen ==
    /\ verdict = "false"
    /\ ~divided
    /\ call.arity = 4
    /\ call.timeDeltaSec = 0
    /\ call.segmentDist = 7000
    /\ call.pauseThresholdSec = 10000
\* C11 as stated: with a zero time delta the division is never evaluated,
\* whatever pause threshold the caller passes
ZeroDeltaNeverDivides ==
    (verdict # "pending" /\ call.timeDeltaSec = 0) => ~divided

\* C12: the haversine distance between two identical coordinates is exactly 0,
\* at every latitude and longitude of the valid ranges
IdenticalPointsAreZeroApart ==
    (hav.returned /\ hav.lat1 = hav.lat2 /\ hav.lon1 = hav.lon2) => hav.metres = 0
IdenticalPointsSeen ==
    /\ hav.returned
    /\ hav.lat1 = 100075434
    /\ hav.lat2 = 100075434
    /\ hav.lon1 = 180
    /\ hav.lon2 = 180
    /\ hav.metres = 0

\* C13: one segment appends at most one split, so the splits never outnumber
\* the segments processed, a segment crossing several kilometre boundaries
\* included
SplitsAtMostSegments ==
    /\ [](/\ pc = "loop" => Len(splitsArr) <= i - 1
          /\ pc = "done" => Len(splits) <= Len(Path) - 1)
    /\ [][Len(splitsArr') <= Len(splitsArr) + 1]_vars
SplitsAtMostSegmentsSeen ==
    /\ pc = "done"
    /\ Len(Path) = 3
    /\ Len(splits) = 2
    /\ lastSplitKm = 3

\* C14: every watch still registered is the one held in watchId, so there is
\* at most one, and once stopTracking has run with no startTracking pending
\* none is left to deliver a position
OnlyTheHeldWatchIsRegistered ==
    /\ watches \subseteq {watchId}
    /\ Cardinality(watches) <= 1
    /\ (~tracking /\ pending = 0) => watches = {}

\* C15: after every iteration lastSplitKm = floor(cumDist / 1000); a split is
\* appended only on a segment of strictly positive distance, so overshootMeters
\* / dist never has a zero divisor: the re-anchored start and every split
\* duration are finite
SplitKmFollowsDistance ==
    /\ [](pc \in {"loop", "done"} =>
            /\ lastSplitKm = cumDist \div KM
            /\ splitStartTime.den > 0
            /\ \A k \in 1..Len(splitsArr) : splitsArr[k].durationSec.den > 0)
    /\ [][Len(splitsArr') = Len(splitsArr) + 1 => SegDist > 0]_vars
SplitKmFollowsDistanceSeen ==
    /\ pc = "done"
    /\ Len(splits) >= 1
    /\ splits[1].durationSec.den > 0
    /\ \E k \in Segments(Path) :
           k > 1 /\ SegDistAt(Path, k) = 0 /\ ~PausedAt(Path, k)

\* timestamps that never go back
Monotone(p) == \A k \in Segments(p) : DeltaAt(p, k) >= 0

\* exact sums of quotients with positive divisors: whole parts, and the
\* fractional parts over a common multiple of the divisors
RECURSIVE GCD(_, _)
GCD(a, b) == IF b = 0 THEN a ELSE GCD(b, a % b)

RECURSIVE CommonDen(_, _)
CommonDen(qs, k) ==
    IF k = 0 THEN 1
    ELSE LET l == CommonDen(qs, k - 1)
             d == qs[k].durationSec.den
         IN  (l \div GCD(l, d)) * d

RECURSIVE SumWhole(_, _)
SumWhole(qs, k) ==
    IF k = 0 THEN 0
    ELSE SumWhole(qs, k - 1) + (qs[k].durationSec.num \div qs[k].durationSec.den)

RECURSIVE SumFrac(_, _, _)
SumFrac(qs, k, l) ==
    IF k = 0 THEN 0
    ELSE SumFrac(qs, k - 1, l)
         + (qs[k].durationSec.num % qs[k].durationSec.den) * (l \div qs[k].durationSec.den)

\* the durations of qs add up to t or less
DurationsAtMost(qs, t) ==
    LET l == CommonDen(qs, Len(qs))
        f == SumFrac(qs, Len(qs), l)
        w == SumWhole(qs, Len(qs)) + (f \div l)
    IN  w < t \/ (w = t /\ f % l = 0)

\* C16: on a track whose timestamps never go back the split windows do not
\* overlap: the split durations add up to the total elapsed time or less
SplitWindowsWithinElapsed ==
    (ready /\ Monotone(Path)) => DurationsAtMost(splits, totalTime)

\* C17: when a split is emitted on a segment whose timestamps do not go back,
\* the overshoot is at least 0 and less than the segment distance (the
\* fraction lies in [0, 1)) and the re-anchored splitStartTime lies between
\* the two timestamps of the segment, a segment of several kilometres
\* included; on a track whose timestamps never go back no split duration is
\* negative
InterpolationWithinSegment ==
    /\ [][(Len(splitsArr') = Len(splitsArr) + 1 /\ DeltaT >= 0) =>
            /\ 0 <= cumDist' % KM
            /\ cumDist' % KM < SegDist
            /\ splitStartTime'.den = SegDist
            /\ Prev.timestamp * SegDist <= splitStartTime'.num
            /\ splitStartTime'.num <= Curr.timestamp * SegDist]_vars
    /\ []((pc \in {"loop", "done"} /\ Monotone(Path)) =>
            \A k \in 1..Len(splitsArr) :
                splitsArr[k].durationSec.den > 0 /\ splitsArr[k].durationSec.num >= 0)
InterpolationWithinSegmentSeen ==
    /\ pc = "done"
    /\ Monotone(Path)
    /\ Len(splits) >= 2
    /\ lastSplitKm > Len(splits)
    /\ splitStartTime.den > 1
    /\ splitStartTime.num < Path[Len(Path)].timestamp * splitStartTime.den
    /\ splits[2].durationSec.num > 0

\* the segments among the first k that isStationary calls paused
RECURSIVE PausedCountUpTo(_, _)
PausedCountUpTo(p, k) ==
    IF k = 0 THEN 0
    ELSE PausedCountUpTo(p, k - 1) + (IF PausedAt(p, k) THEN 1 ELSE 0)

\* the segments of p classified as moving
MovingSegments(p) == {k \in Segments(p) : ~PausedAt(p, k)}

\* C18: the pass over an accepted track ends, having taken the n - 1 segments
\* one by one in order, each once: inside the loop every step moves the index
\* on by one or ends the pass at the last point, and at the end the pauses
\* counted plus the segments classified as moving number n - 1
EachSegmentOnceThenDone ==
    /\ [](pc = "loop" =>
            /\ i \in 1..Len(Path)
            /\ pauseCount = PausedCountUpTo(Path, i - 1))
    /\ [](pc = "done" =>
            /\ i = Len(Path)
            /\ pauseCount + Cardinality(MovingSegments(Path)) = Len(Path) - 1)
    /\ [][pc = "loop" =>
            \/ i < Len(Path) /\ i' = i + 1 /\ pc' = "loop" /\ params' = params
            \/ i = Len(Path) /\ i' = i /\ pc' = "done" /\ params' = params]_vars
    /\ (pc = "loop" ~> pc = "done")
EachSegmentOnceSeen ==
    /\ pc = "done"
    /\ Len(Path) = MaxLen
    /\ i = MaxLen
    /\ pauseCount = 1
    /\ Cardinality(MovingSegments(Path)) = MaxLen - 2

\* the summary fields hold what the pass over the whole of p yields
FinalValues(p) ==
    LET a == FoldOf(p, Len(p) - 1)
    IN  /\ distance = a.cumDist
        /\ movingTime = a.accruedMovingTime
        /\ totalTime = p[Len(p)].timestamp - p[1].timestamp
        /\ pausedSections = a.pauseCount
        /\ splits = a.splitsArr
        /\ averageSpeed = AverageSpeedOf(a.cumDist, a.accruedMovingTime)

\* C19: the summary is published once, after the full pass: ready is true only
\* with every field at its final value, it becomes true only at the end of
\* the loop, calculateStats does not run again on the mounted screen, and
\* no summary field changes while ready is true
PublishedOnceAfterThePass ==
    /\ [](ready => (pc = "done" /\ i = Len(Path) /\ FinalValues(Path)))
    /\ [][(~ready /\ ready') => (pc = "loop" /\ i = Len(Path))]_vars
    /\ [][(pc = "done" /\ mounts' = mounts) =>
            (pc' = "done" /\ UNCHANGED <<params, locals>>)]_vars
    /\ [][(ready /\ mounts' = mounts) => UNCHANGED summaryState]_vars
PublishedOnceSeen ==
    /\ ready
    /\ distance > 0
    /\ navigated # << >>
    /\ Len(route) > Len(Path)

====
